---- MODULE Spec2Model ----
(***************************************************************************)
(* AnalyticsBuffer (src/analytics_buffer.py): an in-memory event buffer    *)
(* flushed to a sink by a size trigger, a deadline timer, flush_now and    *)
(* shutdown.                                                               *)
(*                                                                         *)
(* Threads: producers calling track, the threads track starts for a        *)
(* size-triggered flush, threading.Timer threads, one caller of flush_now  *)
(* and one caller of shutdown.  Threads of one kind that are about to call *)
(* the flush routine differ in nothing, so they are counted (ready); the   *)
(* calls of the flush routine that have reached the sink are listed with   *)
(* their local events_to_send (inflight).  A `with self.lock` block makes  *)
(* no blocking call, so it is one step; so is the sink's return together   *)
(* with the block that follows it.  Reads and writes the code makes        *)
(* outside the lock are steps of their own.                                *)
(*                                                                         *)
(* Names: the source spells the capacity max_size in the constructor and   *)
(* max_items in track, the flush routine _flush at its definition and      *)
(* flush where it is handed to Thread and Timer, and the sink api_callable *)
(* in the constructor and api_call_function in _flush.  Each pair is read  *)
(* as one name.                                                            *)
(***************************************************************************)
EXTENDS Integers, Sequences, FiniteSets, TLC

\* ---------------------------------------------------------------- bounds
NumProducers == 3
MaxCalls == 1
MaxFails == 1
MaxManual == 1
MaxShutdown == 2
max_size == 3

Producers == 1..NumProducers

\* The callers of the flush routine, by kind.
Kinds == {"size", "timer", "manual", "shutdown"}

\* The event a caller passes to track: None, or the k-th record of producer p.
None == <<0, 0>>
Event(p, k) == <<p, k>>

VARIABLES
    max_items,              \* the capacity the constructor was given
    buffer,                 \* self.buffer
    timer,                  \* self.timer: "none" (None), or a Timer "armed" or "fired"
    is_shutting_down,       \* self.is_shutting_down
    is_flushing,            \* self.is_flushing
    total_events_tracked,   \* self.total_events_tracked
    successful_flushes,     \* self.successful_flushes
    failed_flushes,         \* self.failed_flushes
    pc,                     \* each producer's position in track: "idle", "append"
    shut,                   \* the position in shutdown: "none", "flush", "wait", "cancel"
    ready,                  \* per kind, the threads about to run the flush routine
    inflight,               \* the flush calls at the sink: [by: kind, events_to_send]
    arg,                    \* the argument of each producer's latest track call
    ret,                    \* what the last track call to return returned: "T", "F", "-"
    calls,                  \* track calls made, per producer
    failsLeft,              \* sink calls that may still raise
    sinkLog,                \* the batches the sink was called with, in call order
    okLog,                  \* the batches of the sink calls that returned, in order
    hist                    \* counts of what has happened (see Init)

vars == <<max_items, buffer, timer, is_shutting_down, is_flushing, total_events_tracked,
          successful_flushes, failed_flushes, pc, shut, ready, inflight, arg, ret,
          calls, failsLeft, sinkLog, okLog, hist>>

\* AnalyticsBuffer.__init__: empty buffer, no timer, flags down, counters zero.
\* capacity is the constructor's max_size (> 0); watch says whether the
\* history keeps what held when shutdown was called.
InitWith(capacity, watch) ==
    /\ max_items = capacity
    /\ buffer = <<>>
    /\ timer = "none"
    /\ is_shutting_down = FALSE
    /\ is_flushing = FALSE
    /\ total_events_tracked = 0
    /\ successful_flushes = 0
    /\ failed_flushes = 0
    /\ pc = [p \in Producers |-> "idle"]
    /\ shut = "none"
    /\ ready = [k \in Kinds |-> 0]
    /\ inflight = <<>>
    /\ arg = [p \in Producers |-> None]
    /\ ret = "-"
    /\ calls = [p \in Producers |-> 0]
    /\ failsLeft \in 0..MaxFails
    /\ sinkLog = <<>>
    /\ okLog = <<>>
    /\ hist = [spawned |-> 0,        \* size-triggered flush threads started
               fired |-> 0,          \* timers that fired
               manual |-> 0,         \* flush_now calls
               shutdowns |-> 0,      \* shutdown calls
               returnedTrue |-> 0,   \* track calls that returned True
               shutdownsDone |-> 0,  \* shutdown calls that returned
               accepted |-> <<>>,    \* the events appended, in the order appended
               watch |-> watch,
               \* While shutdown runs, what held when it was called:
               atCall |-> <<>>,      \* the buffer
               sinkAtCall |-> 0,     \* the number of sink calls made
               idle |-> FALSE]       \* whether no track call was under way

Init == InitWith(max_size, FALSE)

\* The same program, its shutdown calls observed.
ShutdownInit == InitWith(max_size, TRUE)

\* The same program constructed with a capacity one smaller, so that events
\* are still tracked after a size-triggered flush.
SmallInit == InitWith(max_size - 1, FALSE)

\* ---------------------------------------------------------------- lock
HoldsLockAtSink_Always(call) == TRUE

\* Whether a call of _flush that is at the sink holds self.lock: its first
\* `with self.lock` block ends before `self.api_call_function(events_to_send)`.
HoldsLockAtSink(call) == FALSE

\* self.lock can be acquired: a `with self.lock` block is one step, so the
\* lock is held between steps only by a flush that took it to the sink.
LockFree == \A i \in 1..Len(inflight) : ~HoldsLockAtSink(inflight[i])

\* ---------------------------------------------------------------- timers
StartTimer_Inverted(tm) == IF tm = "none" THEN tm ELSE "armed"

\* _start_timer: nothing if self.timer is set, else a new armed Timer.
StartTimer(tm) == IF tm # "none" THEN tm ELSE "armed"

\* `if self.timer: self.timer.cancel(); self.timer = None`.  Cancelling stops a
\* Timer that has not fired; one that has fired runs its callback regardless.
CancelTimer(tm) == "none"

\* The Timer's interval elapses: its thread goes on to call the flush routine.
TimerFire ==
    /\ UNCHANGED max_items
    /\ timer = "armed"
    /\ timer' = "fired"
    /\ ready' = [ready EXCEPT !["timer"] = @ + 1]
    /\ hist' = [hist EXCEPT !.fired = @ + 1]
    /\ UNCHANGED <<buffer, is_shutting_down, is_flushing,
                   total_events_tracked, successful_flushes, failed_flushes,
                   pc, shut, inflight, arg, ret, calls, failsLeft, sinkLog, okLog>>

\* ---------------------------------------------------------------- track
IsNone_Never(e) == FALSE

\* `if event is None`
IsNone(e) == e = None

RejectsShutdown_Never == FALSE

\* `if self.is_shutting_down`
RejectsShutdown == is_shutting_down

BufferFull_Strict(buf) == Len(buf) > max_items

\* `if len(self.buffer) >= self.max_items`
BufferFull(buf) == Len(buf) >= max_items

FirstEvent_Never(buf, tm) == FALSE

\* `if len(self.buffer) == 1 and self.timer is None`
FirstEvent(buf, tm) == Len(buf) = 1 /\ tm = "none"

Enqueue_Front(buf, e) == <<e>> \o buf

\* `self.buffer.append(event)`
Enqueue(buf, e) == Append(buf, e)

TrackedAfter_Lost(n) == IF n = 1 THEN n ELSE n + 1

\* `self.total_events_tracked += 1`
TrackedAfter(n) == n + 1

\* track(event), up to the lock: the two rejections, decided outside the lock.
TrackCall(p, e) ==
    /\ UNCHANGED max_items
    /\ pc[p] = "idle"
    /\ calls[p] < MaxCalls
    /\ calls' = [calls EXCEPT ![p] = @ + 1]
    /\ arg' = [arg EXCEPT ![p] = e]
    /\ IF IsNone(e) \/ RejectsShutdown
       THEN /\ ret' = "F"
            /\ UNCHANGED pc
       ELSE /\ pc' = [pc EXCEPT ![p] = "append"]
            /\ UNCHANGED ret
    /\ UNCHANGED <<buffer, timer, is_shutting_down, is_flushing,
                   total_events_tracked, successful_flushes, failed_flushes,
                   shut, ready, inflight, failsLeft, sinkLog, okLog, hist>>

\* track's `with self.lock` block and `return True`: append, count, arm the
\* timer on the first event, start a flush thread when the buffer is full.
TrackLocked(p) ==
    /\ UNCHANGED max_items
    /\ pc[p] = "append"
    /\ LockFree
    /\ LET buf == Enqueue(buffer, arg[p])
       IN /\ buffer' = buf
          /\ total_events_tracked' = TrackedAfter(total_events_tracked)
          /\ timer' = IF FirstEvent(buf, timer) THEN StartTimer(timer) ELSE timer
          /\ ready' = IF BufferFull(buf) THEN [ready EXCEPT !["size"] = @ + 1] ELSE ready
          /\ hist' = [hist EXCEPT !.spawned = IF BufferFull(buf) THEN @ + 1 ELSE @,
                                  !.returnedTrue = @ + 1,
                                  !.accepted = Append(@, arg[p])]
    /\ pc' = [pc EXCEPT ![p] = "idle"]
    /\ ret' = "T"
    /\ UNCHANGED <<is_shutting_down, is_flushing, successful_flushes, failed_flushes,
                   shut, inflight, arg, calls, failsLeft, sinkLog, okLog>>

\* ---------------------------------------------------------------- _flush
FlushInProgress_Never == FALSE

\* `if self.is_flushing`
FlushInProgress == is_flushing

BufferEmpty_Never(buf) == FALSE

\* `if len(self.buffer) == 0`
BufferEmpty(buf) == Len(buf) = 0

Snapshot_Short(buf) == SubSeq(buf, 1, Len(buf) - 1)

\* `events_to_send = self.buffer.copy()`
Snapshot(buf) == buf

DropSent_None(buf, n) == buf

\* `self.buffer = self.buffer[event_count:]`
DropSent(buf, n) == SubSeq(buf, n + 1, Len(buf))

KeepFailed_Dropped(buf, n) == SubSeq(buf, n + 1, Len(buf))

\* The except block leaves self.buffer as it is.
KeepFailed(buf, n) == buf

EventsRemain_Never(buf) == FALSE

\* `if len(self.buffer) > 0`, before _start_timer in both outcomes.
EventsRemain(buf) == Len(buf) > 0

AfterSinkError_Stuck(flag) == flag

\* `self.is_flushing = False` in the except block.
AfterSinkError(flag) == FALSE

\* The inflight list without its i-th call.
Without(s, i) == SubSeq(s, 1, i - 1) \o SubSeq(s, i + 1, Len(s))

\* Where shutdown stands when a call of _flush by kind k returns: its own call
\* of flush_now is followed by the wait loop.
AfterFlush(k) == IF k = "shutdown" THEN "wait" ELSE shut

\* _flush's first block, a flush already running: return.
FlushSkip(k) ==
    /\ UNCHANGED max_items
    /\ ready[k] > 0
    /\ LockFree
    /\ FlushInProgress
    /\ ready' = [ready EXCEPT ![k] = @ - 1]
    /\ shut' = AfterFlush(k)
    /\ UNCHANGED <<buffer, timer, is_shutting_down, is_flushing,
                   total_events_tracked, successful_flushes, failed_flushes,
                   pc, inflight, arg, ret, calls, failsLeft, sinkLog, okLog, hist>>

\* _flush's first block, nothing buffered: cancel the timer and return.
FlushEmpty(k) ==
    /\ UNCHANGED max_items
    /\ ready[k] > 0
    /\ LockFree
    /\ ~FlushInProgress
    /\ BufferEmpty(buffer)
    /\ timer' = CancelTimer(timer)
    /\ ready' = [ready EXCEPT ![k] = @ - 1]
    /\ shut' = AfterFlush(k)
    /\ UNCHANGED <<buffer, is_shutting_down, is_flushing,
                   total_events_tracked, successful_flushes, failed_flushes,
                   pc, inflight, arg, ret, calls, failsLeft, sinkLog, okLog, hist>>

\* _flush's first block otherwise: raise is_flushing, cancel the timer, copy
\* the buffer; then, outside the lock, call the sink.
FlushStart(k) ==
    /\ UNCHANGED max_items
    /\ ready[k] > 0
    /\ LockFree
    /\ ~FlushInProgress
    /\ ~BufferEmpty(buffer)
    /\ is_flushing' = TRUE
    /\ timer' = CancelTimer(timer)
    /\ ready' = [ready EXCEPT ![k] = @ - 1]
    /\ inflight' = Append(inflight, [by |-> k, events_to_send |-> Snapshot(buffer)])
    /\ sinkLog' = Append(sinkLog, Snapshot(buffer))
    /\ UNCHANGED <<buffer, is_shutting_down,
                   total_events_tracked, successful_flushes, failed_flushes,
                   pc, shut, arg, ret, calls, failsLeft, okLog, hist>>

\* The sink returns; the success block: drop the events sent, count, lower
\* is_flushing, arm a timer if events remain.
FlushSuccess(i) ==
    /\ UNCHANGED max_items
    /\ i \in 1..Len(inflight)
    /\ LET buf == DropSent(buffer, Len(inflight[i].events_to_send))
       IN /\ buffer' = buf
          /\ timer' = IF EventsRemain(buf) THEN StartTimer(timer) ELSE timer
    /\ successful_flushes' = successful_flushes + 1
    /\ is_flushing' = FALSE
    /\ okLog' = Append(okLog, inflight[i].events_to_send)
    /\ shut' = AfterFlush(inflight[i].by)
    /\ inflight' = Without(inflight, i)
    /\ UNCHANGED <<is_shutting_down, total_events_tracked, failed_flushes,
                   pc, ready, arg, ret, calls, failsLeft, sinkLog, hist>>

\* The sink raises; the except block: count, lower is_flushing, arm a timer if
\* events remain.
FlushFailure(i) ==
    /\ UNCHANGED max_items
    /\ i \in 1..Len(inflight)
    /\ failsLeft > 0
    /\ failsLeft' = failsLeft - 1
    /\ LET buf == KeepFailed(buffer, Len(inflight[i].events_to_send))
       IN /\ buffer' = buf
          /\ timer' = IF EventsRemain(buf) THEN StartTimer(timer) ELSE timer
    /\ failed_flushes' = failed_flushes + 1
    /\ is_flushing' = AfterSinkError(is_flushing)
    /\ shut' = AfterFlush(inflight[i].by)
    /\ inflight' = Without(inflight, i)
    /\ UNCHANGED <<is_shutting_down, total_events_tracked, successful_flushes,
                   pc, ready, arg, ret, calls, sinkLog, okLog, hist>>

\* ---------------------------------------------------------------- flush_now
\* Whether the caller of flush_now is inside it.
ManualBusy == ready["manual"] > 0 \/ \E i \in 1..Len(inflight) : inflight[i].by = "manual"

FlushNow ==
    /\ UNCHANGED max_items
    /\ ~ManualBusy
    /\ hist.manual < MaxManual
    /\ ready' = [ready EXCEPT !["manual"] = @ + 1]
    /\ hist' = [hist EXCEPT !.manual = @ + 1]
    /\ UNCHANGED <<buffer, timer, is_shutting_down, is_flushing,
                   total_events_tracked, successful_flushes, failed_flushes,
                   pc, shut, inflight, arg, ret, calls, failsLeft, sinkLog, okLog>>

\* ---------------------------------------------------------------- shutdown
ShuttingDownAfter_Toggle(flag) == ~flag

\* `self.is_shutting_down = True`
ShuttingDownAfter(flag) == TRUE

\* `self.is_shutting_down = True`, written outside the lock, then flush_now().
ShutdownCall ==
    /\ UNCHANGED max_items
    /\ shut = "none"
    /\ hist.shutdowns < MaxShutdown
    /\ is_shutting_down' = ShuttingDownAfter(is_shutting_down)
    /\ shut' = "flush"
    /\ ready' = [ready EXCEPT !["shutdown"] = @ + 1]
    /\ hist' = IF hist.watch
               THEN [hist EXCEPT !.shutdowns = @ + 1,
                                 !.atCall = buffer,
                                 !.sinkAtCall = Len(sinkLog),
                                 !.idle = \A p \in Producers : pc[p] = "idle"]
               ELSE [hist EXCEPT !.shutdowns = @ + 1]
    /\ UNCHANGED <<buffer, timer, is_flushing,
                   total_events_tracked, successful_flushes, failed_flushes,
                   pc, inflight, arg, ret, calls, failsLeft, sinkLog, okLog>>

\* `while self.is_flushing and (time.time() - start_time) < timeout`: the loop
\* ends when is_flushing is read False, or when the timeout has elapsed.
ShutdownWaitExit ==
    /\ UNCHANGED max_items
    /\ shut = "wait"
    /\ shut' = "cancel"
    /\ UNCHANGED <<buffer, timer, is_shutting_down, is_flushing,
                   total_events_tracked, successful_flushes, failed_flushes,
                   pc, ready, inflight, arg, ret, calls, failsLeft, sinkLog, okLog, hist>>

\* shutdown's `with self.lock` block: cancel the timer; shutdown returns.
ShutdownCancel ==
    /\ UNCHANGED max_items
    /\ shut = "cancel"
    /\ LockFree
    /\ timer' = CancelTimer(timer)
    /\ shut' = "none"
    /\ hist' = [hist EXCEPT !.shutdownsDone = @ + 1,
                            !.atCall = <<>>, !.sinkAtCall = 0, !.idle = FALSE]
    /\ UNCHANGED <<buffer, is_shutting_down, is_flushing,
                   total_events_tracked, successful_flushes, failed_flushes,
                   pc, ready, inflight, arg, ret, calls, failsLeft, sinkLog, okLog>>

\* ---------------------------------------------------------------- system
Next ==
    \/ \E p \in Producers : \E e \in {None, Event(p, calls[p] + 1)} : TrackCall(p, e)
    \/ \E p \in Producers : TrackLocked(p)
    \/ TimerFire
    \/ \E k \in Kinds : FlushSkip(k)
    \/ \E k \in Kinds : FlushEmpty(k)
    \/ \E k \in Kinds : FlushStart(k)
    \/ \E i \in 1..Len(inflight) : FlushSuccess(i)
    \/ \E i \in 1..Len(inflight) : FlushFailure(i)
    \/ FlushNow
    \/ ShutdownCall
    \/ ShutdownWaitExit
    \/ ShutdownCancel

Spec == Init /\ [][Next]_vars

\* Scheduling: a thread that can take a step of the code takes it, an armed
\* Timer's interval elapses, a sink call ends.  Callers are free to call
\* track, flush_now and shutdown or not.
Fairness ==
    /\ \A p \in Producers : WF_vars(TrackLocked(p))
    /\ WF_vars(TimerFire)
    /\ \A k \in Kinds : WF_vars(FlushSkip(k) \/ FlushEmpty(k) \/ FlushStart(k))
    /\ WF_vars(\E i \in 1..Len(inflight) : FlushSuccess(i) \/ FlushFailure(i))
    /\ WF_vars(ShutdownWaitExit)
    /\ WF_vars(ShutdownCancel)

FairSpec == Init /\ [][Next]_vars /\ Fairness

ShutdownSpec == ShutdownInit /\ [][Next]_vars

SmallSpec == SmallInit /\ [][Next]_vars

\* Scheduling when the sink may never return: as Fairness, but a sink call
\* need not end.
HangFairness ==
    /\ \A p \in Producers : WF_vars(TrackLocked(p))
    /\ WF_vars(TimerFire)
    /\ \A k \in Kinds : WF_vars(FlushSkip(k) \/ FlushEmpty(k) \/ FlushStart(k))
    /\ WF_vars(ShutdownWaitExit)
    /\ WF_vars(ShutdownCancel)

HangSpec == Init /\ [][Next]_vars /\ HangFairness

\* ---------------------------------------------------------------- history
Events == {Event(p, k) : p \in Producers, k \in 1..MaxCalls}

\* Whether sequence s holds e.
Holds(s, e) == \E i \in 1..Len(s) : s[i] = e

\* How many batches of log hold e.
TimesIn(log, e) == Cardinality({j \in 1..Len(log) : Holds(log[j], e)})

\* Whether s is a leading part of t.
IsPrefix(s, t) == Len(s) <= Len(t) /\ SubSeq(t, 1, Len(s)) = s

Last(s) == s[Len(s)]

\* The batches of a log, one after the other.
RECURSIVE Flat(_)
Flat(log) == IF log = <<>> THEN <<>> ELSE log[1] \o Flat(Tail(log))

\* Only track has been called, and timers have run: no flush_now, no shutdown.
OnlyTrack == hist.manual = 0 /\ hist.shutdowns = 0

\* No sink call has raised and none will.
NeverFails == failsLeft = 0 /\ failed_flushes = 0

\* ---------------------------------------------------------------- claims

\* C1: at every instant at most one sink call is outstanding, whatever the
\* interleaving of size-triggered flush threads, timer flushes, flush_now and
\* shutdown.
C1_OneSinkCall == Len(inflight) <= 1

\* A sink call is outstanding while another trigger's thread is about to run
\* the flush routine, or has just been turned away by it.
C1_Witness ==
    /\ Len(inflight) = 1
    /\ \E k \in Kinds : ready[k] > 0 /\ k # inflight[1].by

\* C2: with a sink that never fails, every event whose track call returned
\* True is passed to the sink exactly once: never in two sink batches, and,
\* under fair scheduling of timers and flush threads and unless shutdown is
\* called, eventually in one.
C2_DeliveredOnce ==
    /\ [][NeverFails' => \A e \in Events : TimesIn(sinkLog', e) <= 1]_vars
    /\ \A e \in Events :
          (Holds(buffer, e) /\ NeverFails) ~> (TimesIn(sinkLog, e) = 1 \/ is_shutting_down)

\* Every producer's event was accepted and went to the sink once, in more than
\* one batch, one of them sent by a timer.
C2_Witness ==
    /\ NeverFails /\ ~is_shutting_down
    /\ total_events_tracked = NumProducers * MaxCalls
    /\ buffer = <<>> /\ inflight = <<>>
    /\ Len(sinkLog) >= 2 /\ hist.fired > 0
    /\ \A e \in Events : TimesIn(sinkLog, e) = 1

\* C3: a failed sink call leaves the buffer untouched: after the except block
\* the buffer is what it was, the failed batch first and the events appended
\* during the call after it; failed_flushes is one more, successful_flushes
\* the same, is_flushing False.
C3_FailureKeepsBuffer ==
    [][failsLeft' # failsLeft =>
         \E i \in 1..Len(inflight) :
            /\ inflight' = Without(inflight, i)
            /\ buffer' = buffer
            /\ IsPrefix(inflight[i].events_to_send, buffer')
            /\ failed_flushes' = failed_flushes + 1
            /\ successful_flushes' = successful_flushes
            /\ is_flushing' = FALSE]_vars

\* After the one failed flush the buffer holds the failed batch and an event
\* appended during the sink call.
C3_Witness ==
    /\ failed_flushes = 1 /\ successful_flushes = 0
    /\ ~is_flushing /\ inflight = <<>>
    /\ Len(sinkLog) = 1
    /\ IsPrefix(sinkLog[1], buffer)
    /\ Len(buffer) > Len(sinkLog[1])

\* C4: a failed flush that leaves events buffered arms a deadline timer; the
\* flush a timer starts sends everything buffered; a sink call that returns
\* removes its whole batch and counts one successful flush; so, under fair
\* scheduling and unless shutdown is called, a buffer that has seen a failure
\* is eventually empty (the sink fails at most MaxFails times, producers stop).
C4_RetryAfterFailure ==
    /\ [][(failsLeft' # failsLeft /\ Len(buffer') > 0) => timer' = "armed"]_vars
    /\ [][(sinkLog' # sinkLog /\ ready'["timer"] < ready["timer"]) =>
             (Len(sinkLog') = Len(sinkLog) + 1 /\ Last(sinkLog') = buffer)]_vars
    /\ [][okLog' # okLog =>
             /\ Last(okLog') \o buffer' = buffer
             /\ successful_flushes' = successful_flushes + 1]_vars
    /\ (failed_flushes > 0 /\ buffer # <<>>) ~> (buffer = <<>> \/ is_shutting_down)

\* Only timers flushed: the first timer's batch failed, the timer armed by the
\* failure sent the same batch again, and that emptied the buffer.
C4_Witness ==
    /\ OnlyTrack /\ hist.spawned = 0 /\ hist.fired = 2
    /\ failed_flushes = 1 /\ successful_flushes = 1
    /\ Len(sinkLog) = 2 /\ sinkLog[2] = sinkLog[1]
    /\ buffer = <<>>

\* The buffer filled and its timer fired, and nothing else has flushed; in
\* C5_Race the timer's thread is still about to run the flush routine.
C5_Both ==
    /\ OnlyTrack /\ hist.spawned = 1 /\ hist.fired = 1
    /\ total_events_tracked = max_size

C5_Race == C5_Both /\ ready["timer"] = 1

C6_SizeFlush ==
    (total_events_tracked = max_size /\ OnlyTrack /\ hist.fired = 0) =>
        /\ hist.spawned = 1
        /\ ready["size"] + Len(sinkLog) = 1
        /\ Len(buffer) + (IF okLog = <<>> THEN 0 ELSE Len(okLog[1])) = max_size
        /\ Len(sinkLog) = 1 =>
              /\ Len(sinkLog[1]) = max_size
              /\ buffer = sinkLog[1] \/ (buffer = <<>> /\ okLog = sinkLog)
        /\ (Len(sinkLog) = 1 /\ inflight = <<>> /\ NeverFails) =>
              (buffer = <<>> /\ successful_flushes = 1)

\* The N-th track filled the buffer, and its flush thread has sent the batch.
C6_Witness ==
    /\ total_events_tracked = max_size /\ OnlyTrack /\ hist.fired = 0
    /\ Len(sinkLog) = 1 /\ inflight = <<>> /\ NeverFails
    /\ buffer = <<>> /\ successful_flushes = 1

\* C7: with fewer than capacity events tracked and no flush_now or shutdown,
\* the sink is not called before the timer armed by the first track fires, and
\* that timer's firing makes exactly one sink call, with all buffered events.
C7_Pre == total_events_tracked < max_size /\ OnlyTrack

C7_TimerFlush ==
    /\ [][C7_Pre' =>
             /\ hist'.spawned = 0
             /\ hist'.fired = 0 =>
                   (sinkLog' = <<>> /\ (total_events_tracked' > 0 => timer' = "armed"))
             /\ hist'.fired = 1 => ready'["timer"] + Len(sinkLog') = 1]_vars
    /\ [][(C7_Pre /\ sinkLog' # sinkLog) =>
             /\ ready'["timer"] = ready["timer"] - 1
             /\ Last(sinkLog') = buffer]_vars

\* Two events, below capacity, were sent by the first timer in one batch.
C7_Witness ==
    /\ total_events_tracked = 2 /\ total_events_tracked < max_size /\ OnlyTrack
    /\ hist.fired = 1 /\ Len(sinkLog) = 1 /\ Len(sinkLog[1]) = 2
    /\ successful_flushes = 1 /\ buffer = <<>>

\* C8: total_events_tracked is the number of track calls that returned True,
\* and each of them appended one event: the buffer and the batches of the
\* sink calls that returned hold exactly that many.
C8_TrackedCount ==
    /\ total_events_tracked = hist.returnedTrue
    /\ Cardinality({e \in Events : Holds(buffer, e) \/ TimesIn(okLog, e) > 0})
          = hist.returnedTrue
    /\ \A e \in Events : (IF Holds(buffer, e) THEN 1 ELSE 0) + TimesIn(okLog, e) <= 1

\* Every call of every producer was accepted, and some events have been sent.
C8_Witness ==
    /\ total_events_tracked = NumProducers * MaxCalls
    /\ hist.returnedTrue = NumProducers * MaxCalls
    /\ Len(buffer) < total_events_tracked

\* C9: a track call made once shutdown has been called returns False and
\* leaves the buffer, the counters and the timer as they were.
C9_RejectAfterShutdown ==
    [][\A p \in Producers :
          (is_shutting_down /\ calls'[p] # calls[p]) =>
             /\ ret' = "F" /\ pc'[p] = "idle"
             /\ UNCHANGED <<buffer, total_events_tracked, successful_flushes,
                            failed_flushes, timer>>]_vars

\* A producer called track with an event after shutdown and got False.
C9_Witness ==
    /\ is_shutting_down /\ ret = "F"
    /\ \E p \in Producers :
          /\ arg[p] \in Events /\ pc[p] = "idle"
          /\ ~Holds(buffer, arg[p]) /\ TimesIn(sinkLog, arg[p]) = 0

\* C10: track(None) returns False and changes nothing: not the buffer, the
\* counters, the timer or is_flushing, and it starts no flush.
C10_RejectNone ==
    [][\A p \in Producers :
          (calls'[p] # calls[p] /\ arg'[p] = None) =>
             /\ ret' = "F" /\ pc'[p] = "idle"
             /\ UNCHANGED <<buffer, total_events_tracked, successful_flushes,
                            failed_flushes, timer, is_flushing, ready, inflight,
                            sinkLog>>]_vars

\* track(None) was called with events buffered and a flush at the sink.
C10_Witness ==
    /\ ret = "F" /\ ~is_shutting_down
    /\ \E p \in Producers : arg[p] = None /\ calls[p] > 0
    /\ is_flushing /\ Len(buffer) > 0

\* C11: when shutdown is called with k >= 1 events buffered, the sink is
\* invoked exactly once with a batch of all k events, and with a succeeding
\* sink the buffer is empty when shutdown returns.  Stated for a sink that
\* never fails and for calls of shutdown made while no track call is under
\* way, at the step at which shutdown returns; a sink call outstanding when
\* shutdown is called counts as the one call, and a return while a sink call
\* is still outstanding (the wait timed out) is not held against the claim.
C11_ShutdownFlushes ==
    [][(hist'.shutdownsDone # hist.shutdownsDone /\ hist.watch /\ hist.idle
          /\ Len(hist.atCall) >= 1 /\ NeverFails /\ inflight' = <<>>) =>
            /\ Cardinality({j \in 1..Len(sinkLog') :
                               j >= hist.sinkAtCall /\ sinkLog'[j] = hist.atCall}) = 1
            /\ buffer' = <<>>]_vars

\* C12: a call of shutdown eventually returns, even when a sink call never
\* completes: its wait is bounded by the timeout, after which it cancels the
\* timer and returns.  Checked with sink calls that need not end.
C12_ShutdownReturns == (shut # "none") ~> (shut = "none")

C14_FailureContained ==
    /\ [](is_flushing <=> inflight # <<>>)
    /\ [](successful_flushes + failed_flushes + Len(inflight) = Len(sinkLog))
    /\ [][failsLeft' # failsLeft =>
             \E i \in 1..Len(inflight) :
                /\ failed_flushes' = failed_flushes + 1
                /\ ~is_flushing'
                /\ buffer' = buffer
                /\ shut' = (IF inflight[i].by = "shutdown" THEN "wait" ELSE shut)
                /\ UNCHANGED <<pc, ret, is_shutting_down, total_events_tracked>>]_vars
    /\ [][\A p \in Producers :
             (failed_flushes > 0 /\ ~is_shutting_down
                /\ calls'[p] # calls[p] /\ arg'[p] # None) => pc'[p] = "append"]_vars
    /\ [][\A p \in Producers :
             (failed_flushes > 0 /\ pc[p] = "append" /\ pc'[p] = "idle") =>
                (ret' = "T" /\ buffer' = Append(buffer, arg[p]))]_vars

\* The first batch failed; it was sent again with an event tracked later, and
\* that call returned.
C14_Witness ==
    /\ failed_flushes = 1 /\ successful_flushes = 1 /\ ~is_flushing
    /\ Len(sinkLog) = 2 /\ Len(sinkLog[2]) > Len(sinkLog[1])
    /\ IsPrefix(sinkLog[1], sinkLog[2])
    /\ okLog = <<sinkLog[2]>> /\ buffer = <<>> /\ ret = "T"

\* C15: the lock is not held while a sink call is outstanding: a track call
\* that has passed its checks can then take the lock, and when it does it
\* appends its event and returns True with the sink call still outstanding;
\* and the track call that fills the buffer returns True having only started
\* the flush thread, before that thread has called the sink.
C15_TrackNonBlocking ==
    /\ [](\A p \in Producers :
             (pc[p] = "append" /\ inflight # <<>>) => ENABLED TrackLocked(p))
    /\ [][\A p \in Producers :
             (pc[p] = "append" /\ pc'[p] = "idle" /\ inflight # <<>>) =>
                (ret' = "T" /\ buffer' = Append(buffer, arg[p]) /\ inflight' = inflight)]_vars
    /\ [][hist'.spawned # hist.spawned =>
             /\ ret' = "T"
             /\ ready'["size"] = ready["size"] + 1
             /\ sinkLog' = sinkLog /\ inflight' = inflight]_vars

\* A track call filled the buffer and returned True while an earlier flush was
\* at the sink; the flush thread it started has not run.
C15_Witness ==
    /\ Len(inflight) = 1 /\ Len(inflight[1].events_to_send) < Len(buffer)
    /\ Len(buffer) = max_size /\ ready["size"] = 1 /\ ret = "T"
    /\ \A p \in Producers : pc[p] = "idle"

\* C16: a call of the flush routine that finds the buffer empty and no flush
\* running calls no sink, changes no counter and leaves is_flushing False, and
\* after it no timer is set.
C16_EmptyFlush ==
    [][\A k \in Kinds :
          (ready'[k] < ready[k] /\ ~is_flushing /\ buffer = <<>>) =>
             /\ UNCHANGED <<buffer, sinkLog, inflight, is_flushing, total_events_tracked,
                            successful_flushes, failed_flushes>>
             /\ ~is_flushing'
             /\ timer' = "none"]_vars

\* shutdown was called on a buffer that never held an event: its flush found
\* the buffer empty.
C16_Witness ==
    /\ shut = "wait" /\ total_events_tracked = 0
    /\ buffer = <<>> /\ sinkLog = <<>> /\ ~is_flushing /\ timer = "none"

\* C17: the batch of a flush is the whole buffer at the time of its copy and
\* a leading part of the buffer for as long as the call is outstanding; when
\* the sink returns exactly the batch is removed from the front, what was
\* appended meanwhile stays in order, successful_flushes grows by one,
\* is_flushing is lowered, and a timer is armed if and only if events remain.
C17_BatchIsPrefix ==
    /\ [](\A i \in 1..Len(inflight) : IsPrefix(inflight[i].events_to_send, buffer))
    /\ [][sinkLog' # sinkLog =>
             (Last(sinkLog') = buffer /\ Last(inflight').events_to_send = buffer)]_vars
    /\ [][okLog' # okLog =>
             \E i \in 1..Len(inflight) :
                LET n == Len(inflight[i].events_to_send)
                IN /\ Last(okLog') = SubSeq(buffer, 1, n)
                   /\ buffer' = SubSeq(buffer, n + 1, Len(buffer))
                   /\ successful_flushes' = successful_flushes + 1
                   /\ ~is_flushing'
                   /\ (timer' = "armed") <=> (buffer' # <<>>)
                   /\ (timer' = "none") <=> (buffer' = <<>>)]_vars

\* A flush returned while events appended during its sink call remained: they
\* are the buffer, and a timer is armed for them.
C17_Witness ==
    /\ successful_flushes = 1 /\ failed_flushes = 0 /\ ~is_flushing
    /\ Len(sinkLog) = 1 /\ okLog = sinkLog
    /\ Len(buffer) = 2 /\ timer = "armed"
    /\ hist.accepted = okLog[1] \o buffer

\* C18: whenever no flush is in progress, the batches of the sink calls that
\* returned, in call order, followed by the buffer, are the accepted events in
\* the order they were appended.
C18_InsertionOrder ==
    ~is_flushing => Flat(okLog) \o buffer = hist.accepted

\* Two flushes returned and one failed, with an event still buffered.
C18_Witness ==
    /\ ~is_flushing /\ Len(okLog) = 2 /\ failed_flushes = 1
    /\ Len(buffer) = 1 /\ Len(hist.accepted) = NumProducers * MaxCalls

\* C19: at most one deadline timer is outstanding: armed, or fired with its
\* call of the flush routine not yet run.
C19_OneTimer ==
    (IF timer = "armed" THEN 1 ELSE 0) + ready["timer"] <= 1

\* C20: the decisions of track and shutdown that depend on the buffer's state
\* are not invalidated by a concurrent writer: no event is appended to the
\* buffer once is_shutting_down is True.
C20_NoAppendAfterShutdown ==
    [][is_shutting_down => hist'.accepted = hist.accepted]_vars

\* C21: a flush that starts a sink call leaves no timer set, so events tracked
\* after a size-triggered flush has emptied the buffer are not sent by the
\* deadline that flush superseded: when, after the flush of a full buffer has
\* returned (only track called, the sink not failing, no second size-triggered
\* flush started), the next sink call is made by a timer's thread, that timer is the one armed since, which has
\* fired, and no earlier timer's thread is about.
C21_FlushSupersedesTimer ==
    /\ [][sinkLog' # sinkLog => timer' = "none"]_vars
    /\ [][(OnlyTrack /\ NeverFails /\ hist.spawned = 1
             /\ Len(sinkLog) = 1 /\ okLog = sinkLog /\ Len(okLog[1]) = max_items
             /\ sinkLog' # sinkLog /\ ready'["timer"] < ready["timer"]) =>
                (timer = "fired" /\ ready["timer"] = 1)]_vars

\* C22: in every state before shutdown is called, if events are buffered and
\* no flush is in progress then self.timer is set and its flush is still to
\* come: the Timer is armed, or it has fired and its thread has not yet run
\* the flush routine.
C22_NoStrandedEvents ==
    (hist.shutdowns = 0 /\ buffer # <<>> /\ ~is_flushing) =>
        (timer = "armed" \/ (timer = "fired" /\ ready["timer"] > 0))

\* A size-triggered flush was skipped because a timer's flush was running;
\* that flush has returned, an event appended during its sink call is left,
\* and a timer is armed for it.
C22_Witness ==
    /\ hist.shutdowns = 0 /\ hist.manual = 0 /\ ~is_flushing
    /\ hist.spawned = 1 /\ ready["size"] = 0
    /\ Len(sinkLog) = 1 /\ okLog = sinkLog
    /\ Len(buffer) = 1 /\ timer = "armed"

\* C23: once shutdown has returned (and is not being called again), no timer
\* is set, none is armed afterwards, and no sink call starts, a caller's own
\* flush_now apart.
C23_QuiescentAfterShutdown ==
    [][(hist'.shutdownsDone >= 1 /\ shut' = "none") =>
          /\ timer' = "none"
          /\ (shut = "none" /\ ready'["manual"] = ready["manual"]) =>
                sinkLog' = sinkLog]_vars

====
